---- MODULE Spec2Model ----
(***************************************************************************)
(* Model of the terminal AI assistant: the CLI action (cli.ts), the        *)
(* AIService pipeline (aiService.ts: fetchWithRetry, validateResponse,     *)
(* removeCommandRepetitions, cleanCommand, validateCommand,                *)
(* generateCommand) and the execution collaborator (commandService.ts).    *)
(*                                                                         *)
(* A JavaScript string is modelled as a sequence of one-character strings, *)
(* so that trimming, splitting, slicing and the regular expressions of the *)
(* source are computed character by character.                             *)
(***************************************************************************)
EXTENDS Integers, Sequences, FiniteSets, TLC

\* ------------------------------------------------------------------------
\* Bounds of the model
\* ------------------------------------------------------------------------

\* Longest completion content / user input, counted in tokens of MainTokens.
MaxTokens == 3

\* The network answers after k * LatencyStep ms, k in 0..MaxLatencySteps.
MaxLatencySteps == 2

\* Longest candidate line handed to the collapser on its own, in characters.
MaxLineLen == 4

\* Longest input handed to the normalizer on its own, in tokens of UrlTokens.
MaxUrlTokens == 3

\* ------------------------------------------------------------------------
\* Process-wide configuration (aiService.ts lines 39-47)
\* ------------------------------------------------------------------------

Chars(str) == [i \in 1..Len(str) |-> SubSeq(str, i, i)]

ADMIN_COMMANDS ==
    << Chars("netsh"), Chars("net"), Chars("sc"), Chars("reg"),
       Chars("bcdedit"), Chars("diskpart"), Chars("dism"), Chars("sfc"),
       Chars("format"), Chars("chkdsk"), Chars("taskkill"), Chars("rd /s"),
       Chars("rmdir /s"), Chars("del /f"), Chars("takeown"), Chars("icacls"),
       Chars("attrib"), Chars("runas") >>

TIMEOUT == 30000
MAX_RETRIES == 3
RETRY_DELAY == 1000

\* ------------------------------------------------------------------------
\* JavaScript string primitives used by the service
\* ------------------------------------------------------------------------

\* The characters String.prototype.trim strips and \s matches.
WhiteSpace == {" ", "\t", "\n", "\r"}

UpperCase == Chars("ABCDEFGHIJKLMNOPQRSTUVWXYZ")
LowerCase == Chars("abcdefghijklmnopqrstuvwxyz")
Digits == Chars("0123456789")

Range(f) == {f[i] : i \in DOMAIN f}

Letters == Range(UpperCase) \cup Range(LowerCase)
Alnums == Letters \cup Range(Digits)

IsLetter(c) == c \in Letters
IsAlnum(c) == c \in Alnums

MinOf(S) == CHOOSE m \in S : \A n \in S : m <= n
MaxOf(S) == CHOOSE m \in S : \A n \in S : m >= n

\* String.prototype.trim
Trim(s) ==
    LET keep == {i \in 1..Len(s) : s[i] \notin WhiteSpace}
    IN  IF keep = {} THEN <<>> ELSE SubSeq(s, MinOf(keep), MaxOf(keep))

LowerOf == [c \in Range(UpperCase) |->
               LowerCase[CHOOSE i \in 1..26 : UpperCase[i] = c]]

LowerChar(c) == IF c \in DOMAIN LowerOf THEN LowerOf[c] ELSE c

\* String.prototype.toLowerCase
toLowerCase(s) == [i \in 1..Len(s) |-> LowerChar(s[i])]

\* s has pat at position i
HasAt(s, i, pat) ==
    /\ i >= 1
    /\ i + Len(pat) - 1 <= Len(s)
    /\ SubSeq(s, i, i + Len(pat) - 1) = pat

\* s ends with pat just before position i (a lookbehind at i)
EndsBefore(s, i, pat) == HasAt(s, i - Len(pat), pat)

\* String.prototype.includes
Includes(s, pat) == \E i \in 1..(Len(s) + 1) : HasAt(s, i, pat)

\* String.prototype.split on a one-character separator set (' ' or /[&|]/)
RECURSIVE SplitOn(_, _)
SplitOn(s, seps) ==
    LET at == {i \in 1..Len(s) : s[i] \in seps}
    IN  IF at = {} THEN <<s>>
        ELSE <<SubSeq(s, 1, MinOf(at) - 1)>>
             \o SplitOn(SubSeq(s, MinOf(at) + 1, Len(s)), seps)

\* String.prototype.split(/\r?\n/)
RECURSIVE SplitLines(_)
SplitLines(s) ==
    LET at == {i \in 1..Len(s) : s[i] = "\n"}
    IN  IF at = {} THEN <<s>>
        ELSE LET n == MinOf(at)
                 e == IF n > 1 /\ s[n - 1] = "\r" THEN n - 2 ELSE n - 1
             IN  <<SubSeq(s, 1, e)>> \o SplitLines(SubSeq(s, n + 1, Len(s)))

\* Array.prototype.join(' ')
RECURSIVE JoinSpace(_)
JoinSpace(parts) ==
    IF parts = <<>> THEN <<>>
    ELSE IF Len(parts) = 1 THEN parts[1]
    ELSE parts[1] \o <<" ">> \o JoinSpace(Tail(parts))

\* Number to its decimal text, as a template literal prints it
RECURSIVE Decimal(_)
Decimal(n) ==
    IF n < 10 THEN <<Digits[n + 1]>>
    ELSE Decimal(n \div 10) \o <<Digits[(n % 10) + 1]>>

\* The replacement text of String.prototype.replace(string, string): the
\* patterns $$, $&, $` and $' of the replacement are expanded.
RECURSIVE GetSubstitution(_, _, _, _, _)
GetSubstitution(rep, i, matched, before, after) ==
    IF i > Len(rep) THEN <<>>
    ELSE IF rep[i] = "$" /\ i < Len(rep) /\ rep[i + 1] = "$"
    THEN <<"$">> \o GetSubstitution(rep, i + 2, matched, before, after)
    ELSE IF rep[i] = "$" /\ i < Len(rep) /\ rep[i + 1] = "&"
    THEN matched \o GetSubstitution(rep, i + 2, matched, before, after)
    ELSE IF rep[i] = "$" /\ i < Len(rep) /\ rep[i + 1] = "`"
    THEN before \o GetSubstitution(rep, i + 2, matched, before, after)
    ELSE IF rep[i] = "$" /\ i < Len(rep) /\ rep[i + 1] = "'"
    THEN after \o GetSubstitution(rep, i + 2, matched, before, after)
    ELSE <<rep[i]>> \o GetSubstitution(rep, i + 1, matched, before, after)

\* String.prototype.replace(pat, rep) with a string pattern: first occurrence
ReplaceFirst(s, pat, rep) ==
    LET at == {i \in 1..Len(s) : HasAt(s, i, pat)}
    IN  IF at = {} THEN s
        ELSE LET i == MinOf(at)
                 before == SubSeq(s, 1, i - 1)
                 after == SubSeq(s, i + Len(pat), Len(s))
             IN  before \o GetSubstitution(rep, 1, pat, before, after) \o after

\* ------------------------------------------------------------------------
\* Results of the pipeline's functions: a value or a tagged failure
\* ------------------------------------------------------------------------

None == "NONE"
Ok(v) == [ok |-> TRUE, value |-> v, code |-> None]
Err(c) == [ok |-> FALSE, value |-> <<>>, code |-> c]

\* ------------------------------------------------------------------------
\* Repetition collapse (aiService.ts lines 108-123)
\* ------------------------------------------------------------------------

\* A collapser that compares the halves' lengths only.
removeCommandRepetitions_evenLength(command) ==
    LET trimmedCommand == Trim(command)
        length == Len(trimmedCommand)
    IN  IF length % 2 # 0 THEN trimmedCommand
        ELSE SubSeq(trimmedCommand, 1, length \div 2)

removeCommandRepetitions(command) ==
    LET trimmedCommand == Trim(command)
        length == Len(trimmedCommand)
        halfLength == length \div 2
        firstHalf == SubSeq(trimmedCommand, 1, halfLength)
        secondHalf == SubSeq(trimmedCommand, halfLength + 1, length)
    IN  IF length % 2 # 0 THEN trimmedCommand
        ELSE IF firstHalf = secondHalf THEN firstHalf ELSE trimmedCommand

\* ------------------------------------------------------------------------
\* Response extraction (aiService.ts lines 125-145)
\* ------------------------------------------------------------------------

\* A parsed completion: the choices[0].message.content path is present or
\* not, and when present holds a string.
Absent == [present |-> FALSE, content |-> <<>>]
Completion(c) == [present |-> TRUE, content |-> c]

\* A presence test that lets the empty string through.
contentIsFalsy_absentOnly(data) == ~data.present

\* !data?.choices?.[0]?.message?.content : a missing path and the empty
\* string are both falsy.
contentIsFalsy(data) == ~data.present \/ data.content = <<>>

\* lines.find(line => line.length > 0) over the trimmed lines; <<>> stands
\* for undefined.
firstValidLine(content) ==
    LET lines == SplitLines(content)
        valid == {i \in 1..Len(lines) : Len(Trim(lines[i])) > 0}
    IN  IF valid = {} THEN <<>> ELSE Trim(lines[MinOf(valid)])

validateResponse(data) ==
    IF contentIsFalsy(data) THEN Err("INVALID_RESPONSE")
    ELSE LET content == Trim(data.content)
         IN  IF content = <<>> THEN Err("EMPTY_COMMAND")
             ELSE IF firstValidLine(content) = <<>> THEN Err("INVALID_RESPONSE")
             ELSE Ok(removeCommandRepetitions(firstValidLine(content)))

\* ------------------------------------------------------------------------
\* Command normalization (aiService.ts lines 148-220)
\* ------------------------------------------------------------------------

\* Where a match of /https?:\/\/[^\s]+/ starting at i ends; 0 when there is
\* no match at i.
UrlMatchEnd(s, i) ==
    LET scheme == IF HasAt(s, i, Chars("https://")) THEN 8
                  ELSE IF HasAt(s, i, Chars("http://")) THEN 7
                  ELSE 0
        first == i + scheme
        stops == {j \in first..Len(s) : s[j] \in WhiteSpace}
        last == IF stops = {} THEN Len(s) ELSE MinOf(stops) - 1
    IN  IF scheme = 0 \/ last < first THEN 0 ELSE last

\* `__URL${n}__`
Placeholder(n) == Chars("__URL") \o Decimal(n) \o Chars("__")

\* cleanedCommand.replace(/(https?:\/\/[^\s]+)/g, ...): the text with every
\* URL replaced by its placeholder, and the URLs in order.
RECURSIVE storeUrls(_, _, _, _)
storeUrls(s, i, text, urls) ==
    IF i > Len(s) THEN [text |-> text, urls |-> urls]
    ELSE IF UrlMatchEnd(s, i) = 0
    THEN storeUrls(s, i + 1, Append(text, s[i]), urls)
    ELSE storeUrls(s, UrlMatchEnd(s, i) + 1,
                   text \o Placeholder(Len(urls)),
                   Append(urls, SubSeq(s, i, UrlMatchEnd(s, i))))

commonCommands ==
    (Chars("ipconfig") :> <<Chars("/all"), Chars("/release"), Chars("/renew"),
                            Chars("/flushdns")>>)
    @@ (Chars("dir") :> <<Chars("/a"), Chars("/b"), Chars("/s"), Chars("/w"),
                          Chars("/p"), Chars("/o"), Chars("/ad")>>)
    @@ (Chars("netstat") :> <<Chars("-a"), Chars("-n"), Chars("-b"), Chars("-o")>>)
    @@ (Chars("ping") :> <<Chars("-t"), Chars("-a"), Chars("-n"), Chars("-l")>>)
    @@ (Chars("curl") :> <<Chars("-s"), Chars("-o"), Chars("-L"), Chars("-I"),
                           Chars("-H")>>)

\* Where the run of letters starting at i ends.
LetterRunEnd(s, i) ==
    LET stops == {j \in i..Len(s) : ~IsLetter(s[j])}
    IN  IF stops = {} THEN Len(s) ELSE MinOf(stops) - 1

\* cleanedCommand.match(/\/[a-zA-Z]+|-[a-zA-Z]+/g) || []
RECURSIVE paramMatches(_, _, _)
paramMatches(s, i, found) ==
    IF i > Len(s) THEN found
    ELSE IF s[i] \in {"/", "-"} /\ i < Len(s) /\ IsLetter(s[i + 1])
    THEN paramMatches(s, LetterRunEnd(s, i + 1) + 1,
                      Append(found, SubSeq(s, i, LetterRunEnd(s, i + 1))))
    ELSE paramMatches(s, i + 1, found)

\* The forEach over paramMatches: the lower-cased parameters that are valid,
\* each once, in first-seen order (a Set's iteration order).
RECURSIVE uniqueValidParams(_, _, _, _)
uniqueValidParams(matches, i, validParams, params) ==
    IF i > Len(matches) THEN params
    ELSE IF toLowerCase(matches[i]) \in Range(validParams)
            /\ toLowerCase(matches[i]) \notin Range(params)
    THEN uniqueValidParams(matches, i + 1, validParams,
                           Append(params, toLowerCase(matches[i])))
    ELSE uniqueValidParams(matches, i + 1, validParams, params)

\* Known base command: firstWord + ' ' + the unique valid parameters
knownCommand(firstWord, cleanedCommand) ==
    firstWord \o <<" ">>
    \o JoinSpace(uniqueValidParams(paramMatches(cleanedCommand, 1, <<>>), 1,
                                   commonCommands[firstWord], <<>>))

\* Unknown base command: the parts up to the next instance of the base command
unknownCommand(cleanedCommand) ==
    LET parts == SplitOn(cleanedCommand, {" "})
        baseCommand == parts[1]
        again == {i \in 2..Len(parts) :
                     toLowerCase(parts[i]) = toLowerCase(baseCommand)}
        last == IF again = {} THEN Len(parts) ELSE MinOf(again) - 1
        parameters == SubSeq(parts, 2, last)
    IN  baseCommand
        \o (IF Len(parameters) > 0 THEN <<" ">> \o JoinSpace(parameters) ELSE <<>>)

\* urls.forEach((url, index) => replace(`__URL${index}__`, url))
RECURSIVE restoreUrls(_, _, _)
restoreUrls(s, urls, k) ==
    IF k > Len(urls) THEN s
    ELSE restoreUrls(ReplaceFirst(s, Placeholder(k - 1), urls[k]), urls, k + 1)

\* replace(/(?<!http:|https:)\/\//g, '\\')
RECURSIVE fixPathSeparators(_, _, _)
fixPathSeparators(s, i, out) ==
    IF i > Len(s) THEN out
    ELSE IF /\ HasAt(s, i, Chars("//"))
            /\ ~EndsBefore(s, i, Chars("http:"))
            /\ ~EndsBefore(s, i, Chars("https:"))
    THEN fixPathSeparators(s, i + 2, Append(out, "\\"))
    ELSE fixPathSeparators(s, i + 1, Append(out, s[i]))

cleanCommand(command) ==
    LET stored == storeUrls(Trim(command), 1, <<>>, <<>>)
        firstWord == toLowerCase(SplitOn(stored.text, {" "})[1])
        rebuilt == IF firstWord \in DOMAIN commonCommands
                   THEN knownCommand(firstWord, stored.text)
                   ELSE unknownCommand(stored.text)
        cleanedCommand == fixPathSeparators(restoreUrls(rebuilt, stored.urls, 1),
                                            1, <<>>)
    IN  IF cleanedCommand # <<>> /\ ~IsAlnum(cleanedCommand[1])
        THEN Err("INVALID_COMMAND")
        ELSE Ok(cleanedCommand)

\* ------------------------------------------------------------------------
\* Safety validation (aiService.ts lines 223-250)
\* ------------------------------------------------------------------------

requiresAdminPrivileges(command) ==
    LET commandLower == toLowerCase(command)
    IN  \E k \in 1..Len(ADMIN_COMMANDS) :
            Includes(commandLower, toLowerCase(ADMIN_COMMANDS[k]))

\* (segment.match(/(?<!>)>/g) || []).length
redirectionCount(segment) ==
    Cardinality({j \in 1..Len(segment) :
                    segment[j] = ">" /\ (j = 1 \/ segment[j - 1] # ">")})

\* A validator whose denylist match is case-sensitive.
validateCommand_caseSensitive(command) ==
    LET commandSegments == SplitOn(command, {"&", "|"})
    IN  IF command = <<>> THEN "EMPTY_COMMAND"
        ELSE IF \E k \in 1..Len(ADMIN_COMMANDS) :
                    Includes(command, ADMIN_COMMANDS[k])
        THEN "ADMIN_REQUIRED"
        ELSE IF \E k \in 1..Len(commandSegments) :
                    redirectionCount(commandSegments[k]) > 1
        THEN "INVALID_REDIRECTION"
        ELSE None

\* The code the validator fails with; None when it returns normally.
validateCommand(command) ==
    LET commandSegments == SplitOn(command, {"&", "|"})
    IN  IF command = <<>> THEN "EMPTY_COMMAND"
        ELSE IF requiresAdminPrivileges(command) THEN "ADMIN_REQUIRED"
        ELSE IF \E k \in 1..Len(commandSegments) :
                    redirectionCount(commandSegments[k]) > 1
        THEN "INVALID_REDIRECTION"
        ELSE None

\* ------------------------------------------------------------------------
\* State
\* ------------------------------------------------------------------------

VARIABLES
    pc,         \* where the request is: the pipeline's state, then the CLI's
    userInput,  \* the query handed to generateCommand
    attempt,    \* fetchWithRetry's loop counter
    lastError,  \* fetchWithRetry's lastError: what failed, on which attempt
    now,        \* the event loop's clock, in ms
    timers,     \* the timeout timers armed and neither cleared nor fired
    fetchDue,   \* when the network answers the call in flight
    backoffDue, \* when the backoff delay in progress ends
    hist,       \* per attempt: when its call was issued, when and how it ended
    fired,      \* the timers that fired, and whether their call was in flight
    data,       \* the parsed completion
    line,       \* the candidate line the extractor selected
    command,    \* validateResponse's return value: the collapsed line
    result,     \* what generateCommand returned
    error,      \* what generateCommand threw, and in which state
    executed,   \* the commands handed to executeCommand
    exitCode,   \* the process's exit code, -1 while it runs
    fnIn,       \* input of a function applied on its own
    fnOut,      \* the outputs of its successive applications
    fnStage     \* how many applications were made

vars == <<pc, userInput, attempt, lastError, now, timers, fetchDue, backoffDue,
          hist, fired, data, line, command, result, error, executed, exitCode,
          fnIn, fnOut, fnStage>>

fnVars == <<fnIn, fnOut, fnStage>>

netVars == <<attempt, lastError, timers, fetchDue, backoffDue, hist, fired>>

pipeVars == <<data, line, command, result>>

NoCause == [kind |-> None, attempt |-> 0]
NoError == [code |-> None, cause |-> NoCause, stage |-> None]
NoResult == [returned |-> FALSE, command |-> <<>>]
Returned(c) == [returned |-> TRUE, command |-> c]
NoData == [present |-> FALSE, content |-> Chars("(not parsed)")]

\* ------------------------------------------------------------------------
\* Inputs
\* ------------------------------------------------------------------------

\* All concatenations of at most n members of a token set.
RECURSIVE Concats(_, _)
Concats(tokens, n) ==
    IF n = 0 THEN {<<>>}
    ELSE Concats(tokens, n - 1)
         \cup {s \o tk : s \in Concats(tokens, n - 1), tk \in tokens}

MainTokens ==
    {Chars(" "), Chars("\n"), Chars("a"), Chars("Sc"), Chars(">"), Chars("&")}

Contents == Concats(MainTokens, MaxTokens)

Completions == {Absent} \cup {Completion(c) : c \in Contents}

UserInputs == {Chars(""), Chars(" "), Chars(" \t\r\n"), Chars(" ls ")}

Latencies == {k * TIMEOUT : k \in 0..MaxLatencySteps}

BaseInit ==
    /\ pc = "Idle"
    /\ attempt = 0
    /\ lastError = NoCause
    /\ now = 0
    /\ timers = {}
    /\ fetchDue = 0
    /\ backoffDue = 0
    /\ hist = <<>>
    /\ fired = {}
    /\ data = NoData
    /\ line = <<>>
    /\ command = <<>>
    /\ result = NoResult
    /\ error = NoError
    /\ executed = <<>>
    /\ exitCode = -1

Init ==
    /\ BaseInit
    /\ userInput \in UserInputs
    /\ fnIn = <<>>
    /\ fnOut = <<>>
    /\ fnStage = 0

\* ------------------------------------------------------------------------
\* The remote completion client (aiService.ts lines 64-106)
\* ------------------------------------------------------------------------

\* A throw of an AIError (or of the generic error) out of generateCommand.
Throw(code, cause) ==
    /\ pc' = "Failed"
    /\ error' = [code |-> code, cause |-> cause, stage |-> pc]

\* One loop iteration up to its await: arm the timeout timer, issue the call.
IssueFetch(k) ==
    /\ attempt' = k
    /\ timers' = timers \cup {[attempt |-> k, due |-> now + TIMEOUT]}
    /\ \E latency \in Latencies : fetchDue' = now + latency
    /\ hist' = Append(hist, [start |-> now, end |-> -1, outcome |-> "PENDING"])
    /\ pc' = "Requesting"

\* A catch block whose backoff does not grow with the attempt number.
catchBlock_constantDelay(kind) ==
    /\ lastError' = [kind |-> kind, attempt |-> attempt]
    /\ hist' = [hist EXCEPT ![attempt] = [@ EXCEPT !.end = now, !.outcome = kind]]
    /\ IF kind = "AbortError"
       THEN Throw("TIMEOUT", NoCause) /\ UNCHANGED backoffDue
       ELSE IF attempt = MAX_RETRIES
       THEN Throw("MAX_RETRIES_EXCEEDED", lastError') /\ UNCHANGED backoffDue
       ELSE /\ pc' = "Retrying"
            /\ backoffDue' = now + RETRY_DELAY
            /\ UNCHANGED error

\* A catch block that retries a timeout like any other failure.
catchBlock_retryOnTimeout(kind) ==
    /\ lastError' = [kind |-> kind, attempt |-> attempt]
    /\ hist' = [hist EXCEPT ![attempt] = [@ EXCEPT !.end = now, !.outcome = kind]]
    /\ IF attempt = MAX_RETRIES
       THEN Throw("MAX_RETRIES_EXCEEDED", lastError') /\ UNCHANGED backoffDue
       ELSE /\ pc' = "Retrying"
            /\ backoffDue' = now + RETRY_DELAY * attempt
            /\ UNCHANGED error

\* The catch block of an attempt, and the throw after the loop.
catchBlock(kind) ==
    /\ lastError' = [kind |-> kind, attempt |-> attempt]
    /\ hist' = [hist EXCEPT ![attempt] = [@ EXCEPT !.end = now, !.outcome = kind]]
    /\ IF kind = "AbortError"
       THEN Throw("TIMEOUT", NoCause) /\ UNCHANGED backoffDue
       ELSE IF attempt = MAX_RETRIES
       THEN Throw("MAX_RETRIES_EXCEEDED", lastError') /\ UNCHANGED backoffDue
       ELSE /\ pc' = "Retrying"
            /\ backoffDue' = now + RETRY_DELAY * attempt
            /\ UNCHANGED error

\* An entry that refuses the empty string only, not whitespace.
Start_noTrim ==
    /\ pc = "Idle"
    /\ IF userInput = <<>>
       THEN /\ Throw("INVALID_INPUT", NoCause)
            /\ UNCHANGED netVars
       ELSE /\ IssueFetch(1)
            /\ UNCHANGED <<lastError, backoffDue, fired, error>>
    /\ UNCHANGED <<userInput, now, pipeVars, executed, exitCode, fnVars>>

\* cli.ts: the action calls generateCommand, which checks the input and
\* enters fetchWithRetry's first attempt.
Start ==
    /\ pc = "Idle"
    /\ IF Trim(userInput) = <<>>
       THEN /\ Throw("INVALID_INPUT", NoCause)
            /\ UNCHANGED netVars
       ELSE /\ IssueFetch(1)
            /\ UNCHANGED <<lastError, backoffDue, fired, error>>
    /\ UNCHANGED <<userInput, now, pipeVars, executed, exitCode, fnVars>>

\* The response arrives: the timer is cleared, then the status is looked at.
FetchResolve ==
    /\ pc = "Requesting"
    /\ fetchDue <= now
    /\ timers' = {t \in timers : t.attempt # attempt}
    /\ \E ok \in BOOLEAN :
          IF ok
          THEN /\ pc' = "Parsing"
               /\ hist' = [hist EXCEPT ![attempt] =
                              [@ EXCEPT !.end = now, !.outcome = "OK"]]
          ELSE /\ pc' = "ReadingBody"
               /\ UNCHANGED hist
    /\ UNCHANGED <<userInput, attempt, lastError, now, fetchDue, backoffDue,
                   fired, pipeVars, error, executed, exitCode, fnVars>>

\* await response.text() of a non-2xx response, then the throw of API_ERROR
\* into the catch block; the body read may itself fail.
ReadBody ==
    /\ pc = "ReadingBody"
    /\ \E readable \in BOOLEAN :
          catchBlock(IF readable THEN "API_ERROR" ELSE "BODY_ERROR")
    /\ UNCHANGED <<userInput, attempt, now, timers, fetchDue, fired, pipeVars,
                   executed, exitCode, fnVars>>

\* fetch rejects with a transport error: clearTimeout is skipped.
FetchReject ==
    /\ pc = "Requesting"
    /\ fetchDue <= now
    /\ catchBlock("TRANSPORT")
    /\ UNCHANGED <<userInput, attempt, now, timers, fetchDue, fired, pipeVars,
                   executed, exitCode, fnVars>>

\* The states in which the event loop can run a timer or let time pass.
Suspended ==
    {"Requesting", "ReadingBody", "Retrying", "Parsing", "Executing", "Finished"}

\* A timeout timer fires: controller.abort(). The call of that attempt, when
\* still in flight, rejects with AbortError into the catch block.
TimerFire ==
    /\ pc \in Suspended
    /\ \E t \in timers :
          /\ t.due <= now
          /\ timers' = timers \ {t}
          /\ IF pc = "Requesting" /\ t.attempt = attempt
             THEN /\ fired' = fired \cup {[attempt |-> t.attempt, inFlight |-> TRUE]}
                  /\ catchBlock("AbortError")
             ELSE /\ fired' = fired \cup {[attempt |-> t.attempt, inFlight |-> FALSE]}
                  /\ UNCHANGED <<pc, lastError, hist, backoffDue, error>>
    /\ UNCHANGED <<userInput, attempt, now, fetchDue, pipeVars, executed,
                   exitCode, fnVars>>

\* The backoff delay ends: the next loop iteration.
BackoffDone ==
    /\ pc = "Retrying"
    /\ backoffDue <= now
    /\ IssueFetch(attempt + 1)
    /\ UNCHANGED <<userInput, lastError, now, backoffDue, fired, pipeVars, error,
                   executed, exitCode, fnVars>>

\* The times at which something is scheduled.
Pending ==
    {t.due : t \in timers}
    \cup (IF pc = "Requesting" THEN {fetchDue} ELSE {})
    \cup (IF pc = "Retrying" THEN {backoffDue} ELSE {})

\* Nothing is due: the clock moves to the next scheduled time.
Advance ==
    /\ pc \in Suspended
    /\ Pending # {}
    /\ MinOf(Pending) > now
    /\ now' = MinOf(Pending)
    /\ UNCHANGED <<pc, userInput, netVars, pipeVars, error, executed, exitCode,
                   fnVars>>

\* ------------------------------------------------------------------------
\* generateCommand after the response (aiService.ts lines 264-274)
\* ------------------------------------------------------------------------

\* await response.json(): a parsed completion, or a SyntaxError that
\* generateCommand turns into the generic error.
ParseJson ==
    /\ pc = "Parsing"
    /\ \/ /\ \E d \in Completions : data' = d
          /\ pc' = "Extracting"
          /\ UNCHANGED error
       \/ /\ Throw("UNEXPECTED", NoCause)
          /\ UNCHANGED data
    /\ UNCHANGED <<userInput, netVars, now, line, command, result, executed,
                   exitCode, fnVars>>

\* const command = this.validateResponse(data)
Extract ==
    /\ pc = "Extracting"
    /\ LET extracted == validateResponse(data)
       IN  IF extracted.ok
           THEN /\ line' = firstValidLine(Trim(data.content))
                /\ command' = extracted.value
                /\ pc' = "Validating"
                /\ UNCHANGED error
           ELSE /\ Throw(extracted.code, NoCause)
                /\ UNCHANGED <<line, command>>
    /\ UNCHANGED <<userInput, netVars, now, data, result, executed, exitCode,
                   fnVars>>

\* this.validateCommand(command); return [command]
Validate ==
    /\ pc = "Validating"
    /\ LET verdict == validateCommand(command)
       IN  IF verdict = None
           THEN /\ result' = Returned(command)
                /\ pc' = "Done"
                /\ UNCHANGED error
           ELSE /\ Throw(verdict, NoCause)
                /\ UNCHANGED result
    /\ UNCHANGED <<userInput, netVars, now, data, line, command, executed,
                   exitCode, fnVars>>

\* ------------------------------------------------------------------------
\* The CLI action (cli.ts lines 15-36) and executeCommand
\* ------------------------------------------------------------------------

\* An action that goes on to execute the candidate after a failure.
CliExecute_alsoAfterFailure ==
    /\ pc \in {"Done", "Failed"}
    /\ executed' = Append(executed, command)
    /\ pc' = "Executing"
    /\ UNCHANGED <<userInput, netVars, now, pipeVars, error, exitCode, fnVars>>

\* const [command] = await generateCommand(query); executeCommand(command)
CliExecute ==
    /\ pc = "Done"
    /\ executed' = Append(executed, result.command)
    /\ pc' = "Executing"
    /\ UNCHANGED <<userInput, netVars, now, pipeVars, error, exitCode, fnVars>>

\* exec's callback resolves the result record; the action prints it and ends.
ExecFinish ==
    /\ pc = "Executing"
    /\ pc' = "Finished"
    /\ UNCHANGED <<userInput, netVars, now, pipeVars, error, executed, exitCode,
                   fnVars>>

\* catch (error) { console.error(...); process.exit(1) }
CliCatch ==
    /\ pc = "Failed"
    /\ exitCode' = 1
    /\ timers' = {}
    /\ pc' = "Exited"
    /\ UNCHANGED <<userInput, attempt, lastError, now, fetchDue, backoffDue, hist,
                   fired, pipeVars, error, executed, fnVars>>

\* The action has ended and the event loop is empty: the process ends.
ProcessEnd ==
    /\ pc = "Finished"
    /\ timers = {}
    /\ exitCode' = 0
    /\ pc' = "Exited"
    /\ UNCHANGED <<userInput, netVars, now, pipeVars, error, executed, fnVars>>

Next ==
    \/ Start
    \/ FetchResolve
    \/ ReadBody
    \/ FetchReject
    \/ TimerFire
    \/ BackoffDone
    \/ Advance
    \/ ParseJson
    \/ Extract
    \/ Validate
    \/ CliExecute
    \/ ExecFinish
    \/ CliCatch
    \/ ProcessEnd

Spec == Init /\ [][Next]_vars

\* ------------------------------------------------------------------------
\* The collapser applied on its own, twice, to a candidate line
\* ------------------------------------------------------------------------

LineChars == {Chars("a"), Chars("b"), Chars(" ")}

\* Candidate lines are non-empty and trimmed (aiService.ts lines 136-137).
CandidateLines ==
    {s \in Concats(LineChars, MaxLineLen) : s # <<>> /\ Trim(s) = s}

InitCollapse ==
    /\ BaseInit
    /\ userInput = <<>>
    /\ fnIn \in CandidateLines
    /\ fnOut = <<>>
    /\ fnStage = 0

CollapseOnce ==
    /\ fnStage = 0
    /\ fnOut' = <<removeCommandRepetitions(fnIn)>>
    /\ fnStage' = 1
    /\ UNCHANGED <<pc, userInput, netVars, now, pipeVars, error, executed,
                   exitCode, fnIn>>

CollapseAgain ==
    /\ fnStage = 1
    /\ fnOut' = Append(fnOut, removeCommandRepetitions(fnOut[1]))
    /\ fnStage' = 2
    /\ UNCHANGED <<pc, userInput, netVars, now, pipeVars, error, executed,
                   exitCode, fnIn>>

NextCollapse ==
    \/ CollapseOnce
    \/ CollapseAgain

SpecCollapse == InitCollapse /\ [][NextCollapse]_vars

\* ------------------------------------------------------------------------
\* The normalizer applied on its own to a command line
\* ------------------------------------------------------------------------

UrlTokens ==
    {Chars("http://"), Chars("https://"), Chars("a"), Chars("//"), Chars(" "),
     Chars("curl"), Chars("$")}

NormalizerInputs == Concats(UrlTokens, MaxUrlTokens)

InitClean ==
    /\ BaseInit
    /\ userInput = <<>>
    /\ fnIn \in NormalizerInputs
    /\ fnOut = <<>>
    /\ fnStage = 0

Clean ==
    /\ fnStage = 0
    /\ fnOut' = <<cleanCommand(fnIn)>>
    /\ fnStage' = 1
    /\ UNCHANGED <<pc, userInput, netVars, now, pipeVars, error, executed,
                   exitCode, fnIn>>

NextClean ==
    \/ Clean

SpecClean == InitClean /\ [][NextClean]_vars

\* ------------------------------------------------------------------------
\* Vocabulary of the properties, stated without the service's own functions
\* ------------------------------------------------------------------------

Blank(s) == \A i \in 1..Len(s) : s[i] \in WhiteSpace

NonTimeoutFailures == {"TRANSPORT", "API_ERROR", "BODY_ERROR"}

\* s holds an entry of the admin denylist, whatever the case of its letters
HasAdminEntry(s) ==
    \E k \in 1..Len(ADMIN_COMMANDS) :
        \E i \in 1..Len(s) :
            /\ i + Len(ADMIN_COMMANDS[k]) - 1 <= Len(s)
            /\ \A j \in 1..Len(ADMIN_COMMANDS[k]) :
                  LowerChar(s[i + j - 1]) = ADMIN_COMMANDS[k][j]

\* position i of s holds a > that no > immediately precedes
Redirection(s, i) == s[i] = ">" /\ (i = 1 \/ s[i - 1] # ">")

\* two such redirections with no & or | between them
TwoRedirectionsInSegment(s) ==
    \E i \in 1..Len(s) :
        \E j \in (i + 1)..Len(s) :
            /\ Redirection(s, i)
            /\ Redirection(s, j)
            /\ \A m \in i..j : s[m] \notin {"&", "|"}

Unsafe(s) == s = <<>> \/ HasAdminEntry(s) \/ TwoRedirectionsInSegment(s)

\* l is the first line of content that is non-empty after trimming, trimmed
IsFirstNonBlankLine(content, l) ==
    /\ l # <<>>
    /\ l[1] \notin WhiteSpace
    /\ l[Len(l)] \notin WhiteSpace
    /\ \A m \in 1..Len(l) : l[m] # "\n"
    /\ \E i \in 1..Len(content) :
          LET j == i + Len(l) - 1
          IN  /\ j <= Len(content)
              /\ SubSeq(content, i, j) = l
              /\ \A m \in 1..(i - 1) : content[m] \in WhiteSpace
              /\ \A m \in (j + 1)..Len(content) :
                    (\A q \in (j + 1)..m : content[q] # "\n")
                        => content[m] \in WhiteSpace

\* s is h twice, for its first half h
IsDoubled(s) ==
    /\ Len(s) % 2 = 0
    /\ \A i \in 1..(Len(s) \div 2) : s[i] = s[i + (Len(s) \div 2)]

\* the extractor has run on the parsed completion
Extracted == data # NoData /\ pc # "Extracting"

\* ------------------------------------------------------------------------
\* C1: every command generateCommand returns is the Command Normalizer's
\* output for the collapsed first non-empty line of the completion (the
\* stage order Extracting, collapse, Normalizing, Validating).
\* ------------------------------------------------------------------------

C1_ReturnedIsNormalized ==
    result.returned =>
        /\ cleanCommand(command).ok
        /\ result.command = cleanCommand(command).value

\* ------------------------------------------------------------------------
\* C2: attempts that fail without timing out are retried, the k-th retry
\* 1000 * k ms after the k-th failure; after three such failures, and with
\* no wait after the third, the request fails with MAX_RETRIES_EXCEEDED
\* carrying the last error; a success ends the attempts at once.
\* ------------------------------------------------------------------------

C2_RetrySchedule ==
    /\ Len(hist) <= 3
    /\ \A k \in 2..Len(hist) :
          /\ hist[k - 1].outcome \in NonTimeoutFailures
          /\ hist[k].start = hist[k - 1].end + 1000 * (k - 1)
    /\ \A k \in 1..Len(hist) :
          /\ (hist[k].outcome \in NonTimeoutFailures /\ k < 3 /\ k = Len(hist))
                => (pc = "Retrying" /\ error = NoError)
          /\ (hist[k].outcome \in NonTimeoutFailures /\ k = 3)
                => /\ pc \in {"Failed", "Exited"}
                   /\ error.code = "MAX_RETRIES_EXCEEDED"
                   /\ error.cause = [kind |-> hist[3].outcome, attempt |-> 3]
                   /\ now = hist[3].end
          /\ hist[k].outcome = "OK"
                => /\ k = Len(hist)
                   /\ pc \notin {"Requesting", "ReadingBody", "Retrying"}
                   /\ error.code \notin {"MAX_RETRIES_EXCEEDED", "TIMEOUT"}
    /\ error.code = "MAX_RETRIES_EXCEEDED"
          => /\ Len(hist) = 3
             /\ \A k \in 1..3 : hist[k].outcome \in NonTimeoutFailures

\* three attempts failed, the last on a transport error
C2_Witness ==
    /\ pc = "Failed"
    /\ error.code = "MAX_RETRIES_EXCEEDED"
    /\ Len(hist) = 3
    /\ lastError = [kind |-> "TRANSPORT", attempt |-> 3]

\* ------------------------------------------------------------------------
\* C3: a timeout on any attempt fails the request with TIMEOUT at once: it
\* is the last attempt, no delay follows it, and the failure is never
\* MAX_RETRIES_EXCEEDED.
\* ------------------------------------------------------------------------

C3_TimeoutFailsAtOnce ==
    /\ \A k \in 1..Len(hist) :
          hist[k].outcome = "AbortError"
             => /\ k = Len(hist)
                /\ pc \in {"Failed", "Exited"}
                /\ error.code = "TIMEOUT"
                /\ hist[k].end = hist[k].start + 30000
                /\ now = hist[k].end
    /\ \A f \in fired :
          f.inFlight => hist[f.attempt].outcome = "AbortError"
    /\ error.code = "TIMEOUT"
          => hist # <<>> /\ hist[Len(hist)].outcome = "AbortError"

\* the second attempt timed out after the first failed otherwise
C3_Witness ==
    /\ Len(hist) = 2
    /\ hist[1].outcome \in NonTimeoutFailures
    /\ hist[2].outcome = "AbortError"
    /\ error.code = "TIMEOUT"

\* ------------------------------------------------------------------------
\* C4: a returned command is non-empty, holds no admin denylist entry
\* (case-insensitively) and has at most one redirection per &/|-segment; a
\* candidate that violates one of these fails the request with
\* EMPTY_COMMAND, ADMIN_REQUIRED or INVALID_REDIRECTION and nothing is
\* returned.
\* ------------------------------------------------------------------------

C4_ReturnedPassedValidator ==
    /\ result.returned => ~Unsafe(result.command)
    /\ (line # <<>> /\ pc # "Validating")
          => IF Unsafe(command)
             THEN /\ ~result.returned
                  /\ pc \in {"Failed", "Exited"}
                  /\ error.stage = "Validating"
                  /\ error.code =
                        IF command = <<>> THEN "EMPTY_COMMAND"
                        ELSE IF HasAdminEntry(command) THEN "ADMIN_REQUIRED"
                        ELSE "INVALID_REDIRECTION"
             ELSE /\ result = Returned(command)
                  /\ error = NoError

\* a command with one redirection in each of two segments was returned
C4_Witness ==
    /\ result.returned
    /\ result.command = Chars(">&>")

\* ------------------------------------------------------------------------
\* C5: executeCommand is called only with the value generateCommand
\* returned; after any failure nothing is executed and the process exits
\* with a non-zero code; at most one command is executed.
\* ------------------------------------------------------------------------

C5_ExecuteOnlyAfterSuccess ==
    /\ Len(executed) <= 1
    /\ executed # <<>>
          => /\ result.returned
             /\ executed[1] = result.command
             /\ error = NoError
    /\ error # NoError
          => /\ executed = <<>>
             /\ pc \in {"Failed", "Exited"}
             /\ pc = "Exited" => exitCode = 1
    /\ exitCode = 0 => Len(executed) = 1

\* the validator failed the request and the process has exited
C5_Witness ==
    /\ pc = "Exited"
    /\ error.stage = "Validating"
    /\ exitCode = 1
    /\ executed = <<>>

\* ------------------------------------------------------------------------
\* C6: a request whose input is empty or whitespace-only fails with
\* INVALID_INPUT before any call is issued or timer armed.
\* ------------------------------------------------------------------------

C6_BlankInputNoNetwork ==
    /\ (Blank(userInput) /\ pc # "Idle")
          => /\ error.code = "INVALID_INPUT"
             /\ error.stage = "Idle"
             /\ hist = <<>>
             /\ attempt = 0
             /\ timers = {}
             /\ fired = {}
             /\ now = 0
    /\ error.code = "INVALID_INPUT" => Blank(userInput)

\* a whitespace-only input has been refused
C6_Witness ==
    /\ pc = "Failed"
    /\ userInput = Chars(" \t\r\n")
    /\ error.code = "INVALID_INPUT"

\* ------------------------------------------------------------------------
\* C7 as written: the extractor fails with INVALID_RESPONSE when the content
\* path is absent, with EMPTY_COMMAND when the content is present and empty
\* after trimming (the empty string included), and otherwise selects the
\* first line that is non-empty after trimming.
\* ------------------------------------------------------------------------

C7_EmptyContentIsEmptyCommand ==
    Extracted =>
        IF ~data.present
        THEN error.stage = "Extracting" /\ error.code = "INVALID_RESPONSE"
        ELSE IF Blank(data.content)
        THEN error.stage = "Extracting" /\ error.code = "EMPTY_COMMAND"
        ELSE IsFirstNonBlankLine(data.content, line)

\* ------------------------------------------------------------------------
\* C7 as amended: the extractor fails with INVALID_RESPONSE when the content
\* path is absent or the content is the empty string, with EMPTY_COMMAND
\* when the content is non-empty and whitespace-only, and otherwise selects
\* the first line that is non-empty after trimming.
\* ------------------------------------------------------------------------

C7_ExtractorOutcome ==
    Extracted =>
        IF ~data.present \/ data.content = <<>>
        THEN error.stage = "Extracting" /\ error.code = "INVALID_RESPONSE"
        ELSE IF Blank(data.content)
        THEN error.stage = "Extracting" /\ error.code = "EMPTY_COMMAND"
        ELSE /\ IsFirstNonBlankLine(data.content, line)
             /\ error.stage # "Extracting"

\* the content was the empty string and the extractor has failed
C7_Witness ==
    /\ Extracted
    /\ data = Completion(<<>>)
    /\ error.code = "INVALID_RESPONSE"

\* ------------------------------------------------------------------------
\* C8 as written: collapsing the result of collapsing a candidate gives the
\* same string as collapsing it once.
\* ------------------------------------------------------------------------

C8_CollapseIdempotent ==
    fnStage = 2 => fnOut[2] = fnOut[1]

\* ------------------------------------------------------------------------
\* C8 as amended: collapsing a candidate returns its first half when it has
\* even length and identical halves and returns it unchanged otherwise;
\* collapsing the result again gives the same string unless that first half
\* is itself two identical halves, and then gives half of it.
\* ------------------------------------------------------------------------

C8_CollapseHalvesOnce ==
    /\ fnStage >= 1
          => IF IsDoubled(fnIn)
             THEN fnOut[1] \o fnOut[1] = fnIn
             ELSE fnOut[1] = fnIn
    /\ fnStage = 2
          => IF IsDoubled(fnOut[1])
             THEN fnOut[2] \o fnOut[2] = fnOut[1] /\ fnOut[2] # fnOut[1]
             ELSE fnOut[2] = fnOut[1]

\* a candidate of four identical quarters was collapsed twice
C8_Witness ==
    /\ fnStage = 2
    /\ fnIn = Chars("aaaa")
    /\ fnOut = <<Chars("aa"), Chars("a")>>

\* ------------------------------------------------------------------------
\* C9: every http:// or https:// URL of the normalizer's input reappears
\* unchanged in its output.
\* ------------------------------------------------------------------------

C9_UrlsPreserved ==
    (fnStage = 1 /\ fnOut[1].ok)
        => \A i \in 1..Len(fnIn) :
              UrlMatchEnd(fnIn, i) # 0
                 => Includes(fnOut[1].value, SubSeq(fnIn, i, UrlMatchEnd(fnIn, i)))

\* ------------------------------------------------------------------------
\* C10: a timeout timer fires only while the call of its attempt is in
\* flight; at most one timer is armed at a time and none is armed once
\* generateCommand has settled.
\* ------------------------------------------------------------------------

C10_TimerFiresOnlyInFlight ==
    /\ \A f \in fired : f.inFlight
    /\ Cardinality(timers) <= 1
    /\ pc \in {"Done", "Failed"} => timers = {}

====
